---- MODULE Spec2Model ----
(***************************************************************************)
(* bnrun: resolution of a requested script name against the registry,     *)
(* construction of the flattened plan, and the execution loop.             *)
(*                                                                         *)
(* A JavaScript string is modelled as the sequence of its characters, each *)
(* character a one-character TLA+ string, so that the regular-expression   *)
(* scan, split, replace and replaceAll of the source are computed on the   *)
(* characters and not assumed.                                             *)
(***************************************************************************)
EXTENDS Integers, Sequences, FiniteSets, TLC

(***************************************************************************)
(* Strings                                                                 *)
(***************************************************************************)

\* The characters \w of the regular expression /\$\{(\w+)\}/g.
WordChars ==
    {"a", "b", "c", "d", "e", "f", "g", "h", "i", "j", "k", "l", "m", "n",
     "o", "p", "q", "r", "s", "t", "u", "v", "w", "x", "y", "z", "_"}

\* String.prototype.startsWith
startsWith(s, prefix) ==
    /\ Len(s) >= Len(prefix)
    /\ SubSeq(s, 1, Len(prefix)) = prefix

\* s occurs in t at position i (1-based)
occursAt(t, s, i) ==
    /\ i >= 1
    /\ i + Len(s) - 1 <= Len(t)
    /\ SubSeq(t, i, i + Len(s) - 1) = s

\* String.prototype.indexOf from position `from` (1-based), 0 when absent
RECURSIVE indexOfFrom(_, _, _)
indexOfFrom(t, s, from) ==
    IF from + Len(s) - 1 > Len(t) THEN 0
    ELSE IF occursAt(t, s, from) THEN from
    ELSE indexOfFrom(t, s, from + 1)

\* String.prototype.substring(n): the characters after the first n
substring(s, n) == SubSeq(s, n + 1, Len(s))

\* String.prototype.replace with a string pattern: the first occurrence only.
\* (The values of this model hold no "$$", "$&", "$`" or "$'", the
\* replacement patterns that replace would expand.)
replaceAt(s, pattern, value, i) ==
    IF i = 0 THEN s
    ELSE SubSeq(s, 1, i - 1) \o value \o SubSeq(s, i + Len(pattern), Len(s))

replace(s, pattern, value) == replaceAt(s, pattern, value, indexOfFrom(s, pattern, 1))

\* String.prototype.replaceAll with a string pattern: every occurrence, left
\* to right, the inserted value is not scanned again.
RECURSIVE replaceAll(_, _, _)
replaceAllAt(s, pattern, value, i) ==
    IF i = 0 \/ Len(pattern) = 0 THEN s
    ELSE SubSeq(s, 1, i - 1) \o value
            \o replaceAll(SubSeq(s, i + Len(pattern), Len(s)), pattern, value)

replaceAll(s, pattern, value) ==
    replaceAllAt(s, pattern, value, indexOfFrom(s, pattern, 1))

\* String.prototype.split(sep) for a one-character separator: the segments
RECURSIVE split(_, _)
splitAt(s, sep, i) ==
    IF i = 0 THEN <<s>>
    ELSE <<SubSeq(s, 1, i - 1)>> \o split(SubSeq(s, i + 1, Len(s)), sep)

split(s, sep) == splitAt(s, sep, indexOfFrom(s, <<sep>>, 1))

\* The end of the run of \w characters of s that starts at i (i - 1 if none)
RECURSIVE wordEnd(_, _)
wordEnd(s, i) ==
    IF i <= Len(s) /\ s[i] \in WordChars THEN wordEnd(s, i + 1) ELSE i - 1

\* /\$\{(\w+)\}/ at position i of s: the index of the closing brace, else 0
closingBrace(s, i, e) ==
    IF e >= i + 2 /\ e + 1 <= Len(s) /\ s[e + 1] = "}" THEN e + 1 ELSE 0

placeholderAt(s, i) ==
    IF i + 3 <= Len(s) /\ s[i] = "$" /\ s[i + 1] = "{"
    THEN closingBrace(s, i, wordEnd(s, i + 2))
    ELSE 0

\* The successive results of regex.exec(s) of the global regular expression,
\* from lastIndex `from`: the matched placeholders `${key}`, in order.
RECURSIVE regexMatches(_, _)
regexExec(s, from, e) ==
    IF e = 0 THEN regexMatches(s, from + 1)
    ELSE <<SubSeq(s, from, e)>> \o regexMatches(s, e + 1)

regexMatches(s, from) ==
    IF from > Len(s) THEN <<>> ELSE regexExec(s, from, placeholderAt(s, from))

(***************************************************************************)
(* Script definitions and inputs                                           *)
(***************************************************************************)

\* Phase (enum)
PRE == "PRE"
COMMAND == "COMMAND"
POST == "POST"

\* const bnrunPrefix = 'bnrun ';
bnrunPrefix == <<"b", "n", "r", "u", "n", " ">>

\* A Script: name, the three phases (an absent pre or post is the empty
\* list: the source tests `script.pre && script.pre.length > 0`), and the
\* run-once option of the pre and of the post phase.
NoOptions == [pre |-> "none", post |-> "none"]
RunOnce == [pre |-> "run-once", post |-> "run-once"]

mkScript(name, pre, command, post, options) ==
    [name |-> name, pre |-> pre, command |-> command, post |-> post,
     options |-> options]

\* "a": a leaf script with the three phases
ScriptA == mkScript(<<"a">>, << <<"p">> >>, << <<"x">> >>, << <<"q">> >>, NoOptions)
\* "a" with run-once pre and post
ScriptARunOnce == mkScript(<<"a">>, << <<"p">> >>, << <<"x">> >>, << <<"q">> >>, RunOnce)
\* "all": pre [w], command [y, bnrun a, z], post [bnrun a]
ScriptAll ==
    mkScript(<<"a", "l", "l">>,
             << <<"w">> >>,
             << <<"y">>, bnrunPrefix \o <<"a">>, <<"z">> >>,
             << bnrunPrefix \o <<"a">> >>,
             NoOptions)
\* "d:${e}": pre [s], command [x ${e}]
ScriptD ==
    mkScript(<<"d", ":", "$", "{", "e", "}">>,
             << <<"s">> >>,
             << <<"x", " ", "$", "{", "e", "}">> >>,
             << >>,
             NoOptions)
\* "d:${e}" with the run-once option for its pre phase
ScriptDRunOnce ==
    mkScript(<<"d", ":", "$", "{", "e", "}">>,
             << <<"s">> >>,
             << <<"x", " ", "$", "{", "e", "}">> >>,
             << >>,
             [pre |-> "run-once", post |-> "none"])
\* "k": command [bnrun d:v, bnrun d:w], two invocations of one template
ScriptK ==
    mkScript(<<"k">>,
             << >>,
             << bnrunPrefix \o <<"d", ":", "v">>, bnrunPrefix \o <<"d", ":", "w">> >>,
             << >>,
             NoOptions)
\* "d:p": an exact name that "d:${e}" also produces
ScriptDP == mkScript(<<"d", ":", "p">>, << >>, << <<"z">> >>, << >>, NoOptions)
\* "b:${p}:x": command [${p} a, bnrun d:${p}]
ScriptB ==
    mkScript(<<"b", ":", "$", "{", "p", "}", ":", "x">>,
             << >>,
             << <<"$", "{", "p", "}", " ", "a">>,
                bnrunPrefix \o <<"d", ":", "$", "{", "p", "}">> >>,
             << >>,
             NoOptions)
\* "l": command [x, bnrun l], a script that invokes itself
ScriptL ==
    mkScript(<<"l">>, << >>, << <<"x">>, bnrunPrefix \o <<"l">> >>, << >>, NoOptions)
\* "m": command [x, bnrun n], n being no script of any registry
ScriptM ==
    mkScript(<<"m">>, << >>, << <<"x">>, bnrunPrefix \o <<"n">> >>, << >>, NoOptions)

\* "c": command [bnrun m], the missing script two invocations down
ScriptC == mkScript(<<"c">>, << >>, << bnrunPrefix \o <<"m">> >>, << >>, NoOptions)
\* "${g}:${h}": two placeholders, command [y ${g}${h}${g}]
ScriptT ==
    mkScript(<<"$", "{", "g", "}", ":", "$", "{", "h", "}">>,
             << >>,
             << <<"y", " ", "$", "{", "g", "}", "$", "{", "h", "}",
                  "$", "{", "g", "}">> >>,
             << >>,
             NoOptions)

\* A script with an empty command list
ScriptE == mkScript(<<"e">>, << <<"p">> >>, << >>, << >>, NoOptions)

\* The script of a resolution that threw
NoScript == mkScript(<< >>, << >>, << >>, << >>, NoOptions)

ScriptPool ==
    {ScriptA, ScriptARunOnce, ScriptAll, ScriptD, ScriptDP, ScriptB, ScriptL,
     ScriptM, ScriptC, ScriptT, ScriptE, ScriptDRunOnce, ScriptK}

\* The script files hold at most MaxScripts scripts
MaxScripts == 2

\* The registries loadScripts can return: the sequences of distinct scripts of
\* the pool, in file order
RECURSIVE seqsOver(_, _)
seqsOver(S, n) ==
    IF n = 0 THEN {<< >>}
    ELSE LET shorter == seqsOver(S, n - 1)
         IN  shorter \cup
             {Append(r, s) : r \in {q \in shorter : Len(q) = n - 1}, s \in S}

distinctSeq(r) == \A i, j \in 1..Len(r) : i # j => r[i] # r[j]

Registries == {r \in seqsOver(ScriptPool, MaxScripts) : Len(r) >= 1 /\ distinctSeq(r)}

\* The values JSON.parse returns for the script files: an object whose keys
\* are the names of the scripts of a registry, or a number
ObjectFile(registry) == [typeof |-> "object", entries |-> registry]

NumberFile == [typeof |-> "number", entries |-> << >>]

ScriptFiles == {ObjectFile(registry) : registry \in Registries} \cup {NumberFile}

isScriptsFile(obj) == obj.typeof = "object"

\* The requested names argv._[0]
Targets ==
    { <<"a">>, <<"a", "l", "l">>, <<"d", ":", "p">>, <<"d", ":", "q">>,
      <<"d", ":">>, <<"v", ":", "v">>, <<"d", ":", "d">>,
      <<"b", ":", "v", ":", "x">>, <<"b", ":", "b", "n", "r", "u", "n", ":", "x">>,
      <<"l">>, <<"m">>, <<"c">>, <<"e">>, <<"k">> }

\* The values of --skip (absent: the empty list)
SkipLists ==
    { << >>, << <<"d", ":", "?">>, <<"a">>, <<"w", "*">> >> }

(***************************************************************************)
(* State                                                                   *)
(***************************************************************************)

VARIABLES
    argv,        \* the parsed command line: [target, dry, skip]
    scripts,     \* const scripts = loadScripts(argv.scriptDir)
    scriptsRan,  \* const scriptsRan: string[] = []
    found,       \* const found = findMatchingScript(scripts, argv._[0])
    plan,        \* const plan = createPlan(steps)
    pc,          \* the position of the top-level code
    cursor,      \* the index of the step plan.forEach is at
    executed,    \* the commands execSync was called with, in order
    running,     \* the indexes of the steps whose child process is running
    printed,     \* the explanations console.log printed in a dry run, in order
    error,       \* the uncaught Error, or NoError
    exitCode     \* the exit status of the process, -1 while it runs

vars ==
    <<argv, scripts, scriptsRan, found, plan, pc, cursor, executed, running,
      printed, error, exitCode>>

NoError == [kind |-> "none", param |-> << >>]
NotFound(param) == [kind |-> "No script found", param |-> param]
StackOverflow == [kind |-> "RangeError", param |-> << >>]
InvalidScriptFile == [kind |-> "Invalid script file", param |-> << >>]

\* The depth of nested executeScript calls the call stack holds
MaxDepth == 4

(***************************************************************************)
(* Resolver                                                                *)
(***************************************************************************)

\* scripts.find(s => s.name === param): the index of the first, 0 if none
RECURSIVE findIndexByName(_, _, _)
findIndexByName(registry, param, i) ==
    IF i > Len(registry) THEN 0
    ELSE IF registry[i].name = param THEN i
    ELSE findIndexByName(registry, param, i + 1)

\* const value = param.split(':')[1]; a missing or empty value is falsy
\* A value that is everything after the first separator: parts[1..] joined
RECURSIVE joinParts(_)
joinParts(parts) ==
    IF Len(parts) = 0 THEN << >>
    ELSE IF Len(parts) = 1 THEN parts[1]
    ELSE parts[1] \o <<":">> \o joinParts(Tail(parts))

secondPartAndRest(parts) == IF Len(parts) >= 2 THEN joinParts(Tail(parts)) ELSE << >>

secondPart(parts) == IF Len(parts) >= 2 THEN parts[2] ELSE << >>

paramValue(param) == secondPart(split(param, ":"))

\* The body of the while loop over regex.exec(script.name), for one matched
\* placeholder: acc is the working copy scriptName and the substitutions
substituteOne(acc, placeholder, value) ==
    IF value # << >>
    THEN [scriptName |-> replace(acc.scriptName, placeholder, value),
          substitutions |-> Append(acc.substitutions,
                                   [param |-> placeholder, value |-> value])]
    ELSE acc

\* The while loop, over the placeholders `matches` regex.exec finds in turn
RECURSIVE substituteName(_, _, _)
substituteName(acc, matches, param) ==
    IF matches = << >> THEN acc
    ELSE substituteName(substituteOne(acc, Head(matches), paramValue(param)),
                        Tail(matches), param)

\* One iteration of `for (const script of scripts)`
patternMatch(script, param) ==
    substituteName([scriptName |-> script.name, substitutions |-> << >>],
                   regexMatches(script.name, 1), param)

\* A loop that accepts a script whose substituted name begins the request
RECURSIVE findPatternIndexPrefix(_, _, _)
findPatternIndexPrefix(registry, param, i) ==
    IF i > Len(registry) THEN 0
    ELSE IF startsWith(param, patternMatch(registry[i], param).scriptName) THEN i
    ELSE findPatternIndexPrefix(registry, param, i + 1)

\* The for loop from script i on: the index of the first script whose
\* substituted name equals param, 0 if none
RECURSIVE findPatternIndex(_, _, _)
findPatternIndex(registry, param, i) ==
    IF i > Len(registry) THEN 0
    ELSE IF patternMatch(registry[i], param).scriptName = param THEN i
    ELSE findPatternIndex(registry, param, i + 1)

\* findMatchingScript: the script (and its index in the registry) with its
\* substitutions, or the thrown Error
\* A resolver that tries the placeholder match before the exact match
processedScriptPatternFirst(registry, param, completeMatch, i) ==
    IF i # 0
    THEN [error |-> NoError, index |-> i, script |-> registry[i],
          substitutions |-> patternMatch(registry[i], param).substitutions]
    ELSE IF completeMatch # 0
    THEN [error |-> NoError, index |-> completeMatch,
          script |-> registry[completeMatch], substitutions |-> << >>]
    ELSE [error |-> NotFound(param), index |-> 0, script |-> NoScript,
          substitutions |-> << >>]

processedScript(registry, param, completeMatch, i) ==
    IF completeMatch # 0
    THEN [error |-> NoError, index |-> completeMatch,
          script |-> registry[completeMatch], substitutions |-> << >>]
    ELSE IF i # 0
    THEN [error |-> NoError, index |-> i, script |-> registry[i],
          substitutions |-> patternMatch(registry[i], param).substitutions]
    ELSE [error |-> NotFound(param), index |-> 0, script |-> NoScript,
          substitutions |-> << >>]

\* A resolver whose for loop returns the last script that matches
RECURSIVE findLastPatternIndex(_, _, _)
findLastPatternIndex(registry, param, i) ==
    IF i < 1 THEN 0
    ELSE IF patternMatch(registry[i], param).scriptName = param THEN i
    ELSE findLastPatternIndex(registry, param, i - 1)

findMatchingScriptLastMatch(registry, param) ==
    processedScript(registry, param, findIndexByName(registry, param, 1),
                    findLastPatternIndex(registry, param, Len(registry)))

findMatchingScript(registry, param) ==
    processedScript(registry, param, findIndexByName(registry, param, 1),
                    findPatternIndex(registry, param, 1))

(***************************************************************************)
(* Skip filter                                                             *)
(***************************************************************************)

\* The skip option, matchGlobPatterns and the skip flag of a step are those
\* of the source listing in docs/index.md; index.ts itself has no skip option
\* and its steps carry no flag.

\* minimatch(item, pattern) for patterns of literal characters, `*` and `?`
\* (the strings of this model hold no `/`, no leading `.` and are not empty)
RECURSIVE minimatch(_, _)
minimatch(item, pattern) ==
    IF pattern = << >> THEN item = << >>
    ELSE IF Head(pattern) = "*"
    THEN \/ minimatch(item, Tail(pattern))
         \/ item # << >> /\ minimatch(Tail(item), pattern)
    ELSE IF item = << >> THEN FALSE
    ELSE /\ Head(pattern) = "?" \/ Head(pattern) = Head(item)
         /\ minimatch(Tail(item), Tail(pattern))

\* matchGlobPatterns: matchedItems collects a pattern for every (item,
\* pattern) pair that matches; the result is matchedItems.length > 0
matchedItems(items, patterns) ==
    {<<i, j>> \in (1..Len(items)) \X (1..Len(patterns)) :
        minimatch(items[i], patterns[j])}

\* A filter that tests the last item (the command) only
matchGlobPatternsLastItem(items, patterns) ==
    \E j \in 1..Len(patterns) : minimatch(items[Len(items)], patterns[j])

matchGlobPatterns(items, patterns) ==
    Cardinality(matchedItems(items, patterns)) > 0

(***************************************************************************)
(* Plan builder                                                            *)
(***************************************************************************)

\* shouldExecutePre(script), scriptsRan being the module-level ledger
shouldExecutePre(script) ==
    IF Len(script.pre) > 0
    THEN IF script.options.pre = "run-once"
         THEN ~(\E i \in 1..Len(scriptsRan) : scriptsRan[i] = script.name)
         ELSE TRUE
    ELSE FALSE

\* A name that is left as the template has it
templateName(name, substitutions) == name

\* subbedScript.substitutions.forEach(sub => name = name.replace(...))
RECURSIVE substitutedName(_, _)
substitutedName(name, substitutions) ==
    IF substitutions = << >> THEN name
    ELSE substitutedName(replace(name, Head(substitutions).param,
                                 Head(substitutions).value),
                         Tail(substitutions))

\* A substitution that replaces only the first occurrence of each placeholder
RECURSIVE substitutedCommandFirstOnly(_, _)
substitutedCommandFirstOnly(command, substitutions) ==
    IF substitutions = << >> THEN command
    ELSE substitutedCommandFirstOnly(replace(command, Head(substitutions).param,
                                             Head(substitutions).value),
                                     Tail(substitutions))

\* substitutions.forEach(sub => command = command.replaceAll(...))
RECURSIVE substitutedCommand(_, _)
substitutedCommand(command, substitutions) ==
    IF substitutions = << >> THEN command
    ELSE substitutedCommand(replaceAll(command, Head(substitutions).param,
                                       Head(substitutions).value),
                            Tail(substitutions))

RECURSIVE executeScript(_, _, _)
RECURSIVE runCommand(_, _, _, _, _)
RECURSIVE mapRunCommand(_, _, _, _, _)

Built(steps) == [error |-> NoError, steps |-> steps]
Thrown(e) == [error |-> e, steps |-> << >>]

\* builtSteps = [...builtSteps, ...steps.flat()], a throw leaving the function
appendSteps(builtSteps, r) ==
    IF r.error # NoError THEN Thrown(r.error)
    ELSE Built(builtSteps.steps \o r.steps)

\* One `if (...) { const steps = phase.map(...); builtSteps = ... }` block
runPhase(builtSteps, eligible, name, commands, substitutions, phase, level) ==
    IF builtSteps.error # NoError THEN builtSteps
    ELSE IF ~eligible THEN builtSteps
    ELSE appendSteps(builtSteps,
                     mapRunCommand(name, commands, substitutions, phase, level))

\* A plan builder that expands the post phase before the command phase
executePhasesPostFirst(script, substitutions, name, level) ==
    runPhase(
        runPhase(
            runPhase(Built(<< >>), shouldExecutePre(script),
                     name, script.pre, substitutions, PRE, level + 1),
            Len(script.post) > 0,
            name, script.post, substitutions, POST, level + 1),
        Len(script.command) > 0,
        name, script.command, substitutions, COMMAND, level + 1)

\* The three phases of executeScript, name being the substituted name
executePhases(script, substitutions, name, level) ==
    runPhase(
        runPhase(
            runPhase(Built(<< >>), shouldExecutePre(script),
                     name, script.pre, substitutions, PRE, level + 1),
            Len(script.command) > 0,
            name, script.command, substitutions, COMMAND, level + 1),
        Len(script.post) > 0,
        name, script.post, substitutions, POST, level + 1)

\* executeScript(subbedScript, phase, level): [error, steps]. A throw of a
\* nested call leaves through every caller, so the steps built so far are
\* lost; a chain of more than MaxDepth nested calls overflows the call stack.
executeScript(subbedScript, phase, level) ==
    IF level > MaxDepth THEN Thrown(StackOverflow)
    ELSE executePhases(subbedScript.script, subbedScript.substitutions,
                       substitutedName(subbedScript.script.name,
                                       subbedScript.substitutions),
                       level)

\* [first, ...rest] of commands.map(...).flat(): a throw ends the map
flat(first, rest) ==
    IF first.error # NoError THEN first
    ELSE IF rest.error # NoError THEN rest
    ELSE Built(first.steps \o rest.steps)

\* commands.map(c => runCommand(name, c, substitutions, phase, level)).flat()
mapRunCommand(name, commands, substitutions, phase, level) ==
    IF commands = << >> THEN Built(<< >>)
    ELSE flat(runCommand(name, Head(commands), substitutions, phase, level),
              mapRunCommand(name, Tail(commands), substitutions, phase, level))

\* A nested invocation that swallows the Error of the resolver
runNestedSwallowing(nested, phase, level) ==
    IF nested.error # NoError THEN Built(<< >>)
    ELSE executeScript(nested, phase, level)

\* return executeScript(found, phase, level), unless findMatchingScript threw
runNested(nested, phase, level) ==
    IF nested.error # NoError THEN Thrown(nested.error)
    ELSE executeScript(nested, phase, level)

\* A step that is labelled with the command phase whatever its list
planStepCommandPhase(script, phase, command) ==
    Built(<< [script |-> script, phase |-> COMMAND, command |-> command,
              skip |-> matchGlobPatterns(<<script, command>>, argv.skip)] >>)

\* return [{ script, phase, command, skip }]
planStep(script, phase, command) ==
    Built(<< [script |-> script, phase |-> phase, command |-> command,
              skip |-> matchGlobPatterns(<<script, command>>, argv.skip)] >>)

\* A runCommand that looks for the marker in the substituted command
runCommandOnSubstituted(script, commandToRun, substitutions, phase, level) ==
    IF startsWith(substitutedCommand(commandToRun, substitutions), bnrunPrefix)
    THEN runNested(
            findMatchingScript(
                scripts,
                substring(substitutedCommand(commandToRun, substitutions),
                          Len(bnrunPrefix))),
            phase, level)
    ELSE planStep(script, phase, substitutedCommand(commandToRun, substitutions))

\* runCommand(script, commandToRun, substitutions, phase, level)
runCommand(script, commandToRun, substitutions, phase, level) ==
    IF startsWith(commandToRun, bnrunPrefix)
    THEN runNested(
            findMatchingScript(
                scripts,
                substring(substitutedCommand(commandToRun, substitutions),
                          Len(bnrunPrefix))),
            phase, level)
    ELSE planStep(script, phase, substitutedCommand(commandToRun, substitutions))

(***************************************************************************)
(* The program: the top-level code of index.ts                             *)
(***************************************************************************)

NoFound ==
    [error |-> NoError, index |-> 0, script |-> NoScript, substitutions |-> << >>]

Init ==
    /\ argv \in [target : Targets, dry : BOOLEAN, skip : SkipLists]
    /\ scripts = << >>
    /\ scriptsRan = << >>
    /\ found = NoFound
    /\ plan = << >>
    /\ pc = "load"
    /\ cursor = 0
    /\ executed = << >>
    /\ running = {}
    /\ printed = << >>
    /\ error = NoError
    /\ exitCode = -1

\* loadScriptFile: JSON.parse, then throw new Error('Invalid script file')
\* unless isScriptsFile; loadScripts pushes every entry of the file
loadScriptFile(file) ==
    IF ~isScriptsFile(file)
    THEN /\ error' = InvalidScriptFile
         /\ exitCode' = 1
         /\ pc' = "crashed"
         /\ scripts' = scripts
    ELSE /\ scripts' = file.entries
         /\ pc' = "resolve"
         /\ UNCHANGED <<error, exitCode>>

\* const scripts = loadScripts(argv.scriptDir): the scripts of the files
LoadScripts ==
    /\ pc = "load"
    /\ \E file \in ScriptFiles : loadScriptFile(file)
    /\ UNCHANGED <<argv, scriptsRan, found, plan, cursor, executed, running,
                   printed>>

\* const found = findMatchingScript(scripts, argv._[0]); an uncaught Error
\* ends the process with status 1
Resolved(r) ==
    IF r.error # NoError
    THEN /\ error' = r.error
         /\ exitCode' = 1
         /\ pc' = "crashed"
         /\ found' = found
    ELSE /\ found' = r
         /\ pc' = "build"
         /\ UNCHANGED <<error, exitCode>>

Resolve ==
    /\ pc = "resolve"
    /\ Resolved(findMatchingScript(scripts, argv.target))
    /\ UNCHANGED <<argv, scripts, scriptsRan, plan, cursor, executed, running,
                   printed>>

\* const steps = executeScript(found); const plan = createPlan(steps);
\* (createPlan adds the explanation text to each step and keeps the rest)
Planned(r) ==
    IF r.error # NoError
    THEN /\ error' = r.error
         /\ exitCode' = 1
         /\ pc' = "crashed"
         /\ UNCHANGED <<plan, cursor>>
    ELSE /\ plan' = r.steps
         /\ cursor' = 1
         /\ pc' = "forEach"
         /\ UNCHANGED <<error, exitCode>>

\* A build that runs the pre commands of the requested script while the
\* rest of the plan is still being built
BuildRunningPre ==
    /\ pc = "build"
    /\ Planned(executeScript(found, COMMAND, 0))
    /\ executed' = [i \in 1..Len(found.script.pre) |->
                        substitutedCommand(found.script.pre[i], found.substitutions)]
    /\ UNCHANGED <<argv, scripts, scriptsRan, found, running, printed>>

Build ==
    /\ pc = "build"
    /\ Planned(executeScript(found, COMMAND, 0))
    /\ UNCHANGED <<argv, scripts, scriptsRan, found, executed, running, printed>>

\* What the dry branch logs for a step: its explanation, after the word
\* Skipping when the step is skipped
explained(step) == [command |-> step.command, skipping |-> step.skip]

\* plan.forEach with a dry branch that prints the step and runs it too
ExplainAndExecute ==
    /\ pc = "forEach"
    /\ cursor <= Len(plan)
    /\ argv.dry
    /\ printed' = Append(printed, explained(plan[cursor]))
    /\ executed' = Append(executed, plan[cursor].command)
    /\ cursor' = cursor + 1
    /\ UNCHANGED <<argv, scripts, scriptsRan, found, plan, pc, running,
                   error, exitCode>>

\* plan.forEach, dry run: the explanation of the step is logged
Explain ==
    /\ pc = "forEach"
    /\ cursor <= Len(plan)
    /\ argv.dry
    /\ printed' = Append(printed, explained(plan[cursor]))
    /\ cursor' = cursor + 1
    /\ UNCHANGED <<argv, scripts, scriptsRan, found, plan, pc, executed, running,
                   error, exitCode>>

\* plan.forEach with a spawn that does not wait for the child process
ExecStartWithoutWaiting ==
    /\ pc = "forEach"
    /\ cursor <= Len(plan)
    /\ ~argv.dry
    /\ ~plan[cursor].skip
    /\ executed' = Append(executed, plan[cursor].command)
    /\ running' = running \cup {cursor}
    /\ cursor' = cursor + 1
    /\ UNCHANGED <<argv, scripts, scriptsRan, found, plan, pc, printed, error,
                   exitCode>>

\* plan.forEach, real run, a step that is not skipped: execSync(step.command)
\* starts the child process
ExecStart ==
    /\ pc = "forEach"
    /\ cursor <= Len(plan)
    /\ ~argv.dry
    /\ ~plan[cursor].skip
    /\ executed' = Append(executed, plan[cursor].command)
    /\ running' = running \cup {cursor}
    /\ pc' = "execSync"
    /\ UNCHANGED <<argv, scripts, scriptsRan, found, plan, cursor, printed, error,
                   exitCode>>

\* A loop that ends at the first skipped step
SkipRest ==
    /\ pc = "forEach"
    /\ cursor <= Len(plan)
    /\ ~argv.dry
    /\ plan[cursor].skip
    /\ cursor' = Len(plan) + 1
    /\ UNCHANGED <<argv, scripts, scriptsRan, found, plan, pc, executed, running,
                   printed, error, exitCode>>

\* plan.forEach, real run, a skipped step: log(`Skipping ${step.command}`),
\* and the loop goes on
Skip ==
    /\ pc = "forEach"
    /\ cursor <= Len(plan)
    /\ ~argv.dry
    /\ plan[cursor].skip
    /\ cursor' = cursor + 1
    /\ UNCHANGED <<argv, scripts, scriptsRan, found, plan, pc, executed, running,
                   printed, error, exitCode>>

\* execSync in a catch block that reports the error and goes on
ExecEndContinuing ==
    /\ pc = "execSync"
    /\ running' = running \ {cursor}
    /\ \E status \in {0, 1} :
        IF status = 0
        THEN /\ cursor' = cursor + 1
             /\ pc' = "forEach"
             /\ UNCHANGED <<error, exitCode>>
        ELSE /\ error' = [kind |-> "Error executing command",
                          param |-> plan[cursor].command]
             /\ exitCode' = 1
             /\ pc' = "forEach"
             /\ cursor' = cursor + 1
    /\ UNCHANGED <<argv, scripts, scriptsRan, found, plan, executed, printed>>

\* execSync returns when the child process has exited with status 0 and
\* throws when it exited with another status: process.exit(1)
ExecEnd ==
    /\ pc = "execSync"
    /\ running' = running \ {cursor}
    /\ \E status \in {0, 1} :
        IF status = 0
        THEN /\ cursor' = cursor + 1
             /\ pc' = "forEach"
             /\ UNCHANGED <<error, exitCode>>
        ELSE /\ error' = [kind |-> "Error executing command",
                          param |-> plan[cursor].command]
             /\ exitCode' = 1
             /\ pc' = "exited"
             /\ cursor' = cursor
    /\ UNCHANGED <<argv, scripts, scriptsRan, found, plan, executed, printed>>

\* The end of plan.forEach and of the program
Finish ==
    /\ pc = "forEach"
    /\ cursor > Len(plan)
    /\ pc' = "done"
    /\ exitCode' = 0
    /\ UNCHANGED <<argv, scripts, scriptsRan, found, plan, cursor, executed,
                   running, printed, error>>

Next ==
    \/ LoadScripts
    \/ Resolve
    \/ Build
    \/ Explain
    \/ ExecStart
    \/ Skip
    \/ ExecEnd
    \/ Finish

Spec == Init /\ [][Next]_vars

(***************************************************************************)
(* Properties                                                              *)
(***************************************************************************)

\* The plan has been built: the program is in or after plan.forEach
PlanBuilt == pc \in {"forEach", "execSync", "exited", "done"}

\* The top-level name has been resolved (or the resolution threw)
TargetResolved == pc \notin {"load", "resolve"} /\ error # InvalidScriptFile

\* A step without its skip flag
core(step) ==
    [script |-> step.script, phase |-> step.phase, command |-> step.command]

cores(steps) == [i \in 1..Len(steps) |-> core(steps[i])]

RECURSIVE concatAll(_)
concatAll(ss) == IF ss = << >> THEN << >> ELSE Head(ss) \o concatAll(Tail(ss))

isSelfInvocation(commandToRun) == startsWith(commandToRun, bnrunPrefix)

phaseLists(script) == script.pre \o script.command \o script.post

hasSelfInvocation(script) ==
    \E i \in 1..Len(phaseLists(script)) : isSelfInvocation(phaseLists(script)[i])

hasPlaceholder(name) == regexMatches(name, 1) # << >>

\* The script a self-invocation of the resolved script ps names
nestedOf(ps, commandToRun) ==
    findMatchingScript(
        scripts,
        substring(substitutedCommand(commandToRun, ps.substitutions),
                  Len(bnrunPrefix)))

\* The declared steps of a resolved script: pre, command, post, as declared
declaredPhase(ps, phase, commands) ==
    [i \in 1..Len(commands) |->
        [script |-> substitutedName(ps.script.name, ps.substitutions),
         phase |-> phase,
         command |-> substitutedCommand(commands[i], ps.substitutions)]]

declaredSteps(ps) ==
    declaredPhase(ps, PRE, ps.script.pre)
        \o declaredPhase(ps, COMMAND, ps.script.command)
        \o declaredPhase(ps, POST, ps.script.post)

\* The declared steps of one phase, the declared steps of the nested script
\* standing at the place of each self-invocation
splicedPhase(ps, phase, commands) ==
    concatAll([i \in 1..Len(commands) |->
        IF isSelfInvocation(commands[i])
        THEN declaredSteps(nestedOf(ps, commands[i]))
        ELSE <<declaredPhase(ps, phase, commands)[i]>>])

splicedSteps(ps) ==
    splicedPhase(ps, PRE, ps.script.pre)
        \o splicedPhase(ps, COMMAND, ps.script.command)
        \o splicedPhase(ps, POST, ps.script.post)

\* The scripts ps invokes are found, invoke no script and have no run-once
\* option
invokesLeavesOnly(ps) ==
    \A i \in 1..Len(phaseLists(ps.script)) :
        isSelfInvocation(phaseLists(ps.script)[i]) =>
            LET nested == nestedOf(ps, phaseLists(ps.script)[i])
            IN  /\ nested.error = NoError
                /\ ~hasSelfInvocation(nested.script)
                /\ nested.script.options = NoOptions

\* C1: phase ordering. The plan of a script is the steps of its pre list,
\* then of its command list, then of its post list, in declared order, the
\* steps of a nested script (pre, command, post) standing contiguously at
\* the place of the command that invokes it. Stated for the scripts whose
\* nested scripts invoke no further script and have no run-once option.
C1_PhaseOrdering ==
    (PlanBuilt /\ invokesLeavesOnly(found)) => cores(plan) = splicedSteps(found)

\* A plan of a script with the three phases and a self-invocation between
\* two sibling commands has been built.
C1_Witness ==
    /\ PlanBuilt
    /\ invokesLeavesOnly(found)
    /\ Len(found.script.pre) > 0 /\ Len(found.script.post) > 0
    /\ \E i \in 2..(Len(found.script.command) - 1) :
        /\ isSelfInvocation(found.script.command[i])
        /\ ~isSelfInvocation(found.script.command[i - 1])
        /\ ~isSelfInvocation(found.script.command[i + 1])
        /\ Len(nestedOf(found, found.script.command[i]).script.pre) > 0
        /\ Len(nestedOf(found, found.script.command[i]).script.post) > 0

\* The number of steps of the plan of a script name and a phase
countSteps(name, phase) ==
    Cardinality({i \in 1..Len(plan) :
                    plan[i].script = name /\ plan[i].phase = phase})

\* The script of the registry that its own name resolves to
resolvesToItself(i) ==
    /\ ~hasPlaceholder(scripts[i].name)
    /\ findIndexByName(scripts, scripts[i].name, 1) = i

\* C2: run-once idempotence. The pre steps of a script with run-once pre
\* appear in a plan once, however often the plan invokes the script.
C2_RunOncePreOnce ==
    PlanBuilt =>
        \A i \in 1..Len(scripts) :
            (resolvesToItself(i) /\ scripts[i].options.pre = "run-once") =>
                countSteps(scripts[i].name, PRE) <= Len(scripts[i].pre)

hasExact(t) == \E i \in 1..Len(scripts) : scripts[i].name = t

\* C3: exact match has priority. When a template of the registry has the
\* requested name, the resolver returns the first such template with no
\* bindings, wherever a parameterized template that produces the same name
\* stands in the registry.
C3_ExactMatchPriority ==
    (TargetResolved /\ hasExact(argv.target)) =>
        /\ found.index # 0
        /\ found.script.name = argv.target
        /\ found.substitutions = << >>
        /\ found.index = CHOOSE i \in 1..Len(scripts) :
                /\ scripts[i].name = argv.target
                /\ \A j \in 1..(i - 1) : scripts[j].name # argv.target

\* The requested name was resolved to the exact template although a
\* parameterized template that produces the name stands before it.
C3_Witness ==
    /\ TargetResolved
    /\ found.index > 1
    /\ found.script.name = argv.target
    /\ \E j \in 1..(found.index - 1) :
        /\ hasPlaceholder(scripts[j].name)
        /\ patternMatch(scripts[j], argv.target).scriptName = argv.target

contains(s, sub) == \E i \in 1..Len(s) : occursAt(s, sub, i)

colonCount(t) == Cardinality({i \in 1..Len(t) : t[i] = ":"})

\* The substring of t after its first `:`
afterFirstColon(t) == SubSeq(t, indexOfFrom(t, <<":">>, 1) + 1, Len(t))

\* The requested name was resolved to a template by placeholder substitution
resolvedByPattern == TargetResolved /\ found.index # 0 /\ found.substitutions # << >>

\* C4: resolving `baseName:value` against a template with placeholders
\* binds every placeholder token of the template name, in order, to
\* `value`, and no step of the template in the plan still holds a bound
\* token; `d:${e}` = {pre: [s], command: [x ${e}]} requested as `d:p`
\* yields [(Pre, s), (Command, x p)].
C4_PlaceholderBinding ==
    /\ (resolvedByPattern /\ colonCount(argv.target) = 1) =>
            found.substitutions =
                [k \in 1..Len(regexMatches(found.script.name, 1)) |->
                    [param |-> regexMatches(found.script.name, 1)[k],
                     value |-> afterFirstColon(argv.target)]]
    /\ (PlanBuilt /\ resolvedByPattern /\ colonCount(argv.target) = 1) =>
            \A i \in 1..Len(plan) :
                plan[i].script = argv.target =>
                    \A k \in 1..Len(found.substitutions) :
                        ~contains(plan[i].command, found.substitutions[k].param)
    /\ (PlanBuilt /\ found.script = ScriptD /\ argv.target = <<"d", ":", "p">>) =>
            cores(plan) =
                << [script |-> <<"d", ":", "p">>, phase |-> PRE,
                    command |-> <<"s">>],
                   [script |-> <<"d", ":", "p">>, phase |-> COMMAND,
                    command |-> <<"x", " ", "p">>] >>

\* A plan was built from a template with two placeholder tokens, one of
\* them twice in a command.
C4_Witness ==
    /\ PlanBuilt
    /\ resolvedByPattern
    /\ colonCount(argv.target) = 1
    /\ Len(found.substitutions) = 2
    /\ \E i \in 1..Len(plan) : plan[i].command = <<"y", " ", "v", "v", "v">>

\* C5 as claimed: the value bound to each placeholder is the substring of
\* the requested name after its first `:`.
C5_ValueAfterFirstColon ==
    resolvedByPattern =>
        \A k \in 1..Len(found.substitutions) :
            found.substitutions[k].value = afterFirstColon(argv.target)

\* The characters of t before its first `:` (all of t if it has none)
beforeFirstColon(t) ==
    IF indexOfFrom(t, <<":">>, 1) = 0 THEN t
    ELSE SubSeq(t, 1, indexOfFrom(t, <<":">>, 1) - 1)

\* The second `:`-delimited segment of t
secondSegment(t) == beforeFirstColon(afterFirstColon(t))

\* The name with every placeholder token replaced by value
RECURSIVE instanceFrom(_, _, _)
instanceFrom(name, value, i) ==
    IF i > Len(name) THEN << >>
    ELSE IF placeholderAt(name, i) # 0
    THEN value \o instanceFrom(name, value, placeholderAt(name, i) + 1)
    ELSE <<name[i]>> \o instanceFrom(name, value, i + 1)

\* C5 as amended: the value bound to each placeholder is the second
\* `:`-delimited segment of the requested name (what stands between its
\* first `:` and its next `:` or its end), and a template whose name with
\* that value at every placeholder is the requested name is matched.
C5_ValueSecondSegment ==
    /\ resolvedByPattern =>
            \A k \in 1..Len(found.substitutions) :
                found.substitutions[k].value = secondSegment(argv.target)
    /\ ( /\ TargetResolved
         /\ colonCount(argv.target) >= 1
         /\ secondSegment(argv.target) # << >>
         /\ ~contains(secondSegment(argv.target), <<"$">>)
         /\ \E i \in 1..Len(scripts) :
                /\ hasPlaceholder(scripts[i].name)
                /\ instanceFrom(scripts[i].name, secondSegment(argv.target), 1)
                        = argv.target ) =>
            found.index # 0

\* A name with two `:` was resolved by substitution.
C5_Witness ==
    /\ resolvedByPattern
    /\ colonCount(argv.target) = 2
    /\ found.substitutions[1].value # afterFirstColon(argv.target)

\* C6: a template with no placeholder in its name is matched by its exact
\* name only: that name resolves to a template of that name with no
\* bindings, and no other requested name resolves to the template.
C6_PlaceholderFreeExactOnly ==
    /\ ( /\ TargetResolved
         /\ \E i \in 1..Len(scripts) :
                ~hasPlaceholder(scripts[i].name) /\ scripts[i].name = argv.target ) =>
            /\ found.index # 0
            /\ found.script.name = argv.target
            /\ found.substitutions = << >>
    /\ (TargetResolved /\ found.index # 0 /\ ~hasPlaceholder(found.script.name)) =>
            /\ found.script.name = argv.target
            /\ found.substitutions = << >>

\* A name was resolved to a template without placeholder while the registry
\* holds another template without placeholder, of another name.
C6_Witness ==
    /\ TargetResolved
    /\ found.index # 0
    /\ ~hasPlaceholder(found.script.name)
    /\ found.substitutions = << >>
    /\ \E j \in 1..Len(scripts) :
        /\ j # found.index
        /\ ~hasPlaceholder(scripts[j].name)
        /\ scripts[j].name # argv.target

\* Some template of the registry matches t, exactly or by substitution
matchesSome(t) ==
    \E i \in 1..Len(scripts) :
        scripts[i].name = t \/ patternMatch(scripts[i], t).scriptName = t

\* No plan was returned and no command was run or printed
nothingProduced ==
    plan = << >> /\ executed = << >> /\ printed = << >> /\ running = {}

BuildEnded == TargetResolved /\ pc # "build"

\* The first self-invocation among the commands of a script
firstSelfInvocation(script) ==
    phaseLists(script)[
        CHOOSE i \in 1..Len(phaseLists(script)) :
            /\ isSelfInvocation(phaseLists(script)[i])
            /\ \A j \in 1..(i - 1) : ~isSelfInvocation(phaseLists(script)[j])]

\* The name the first self-invocation of the resolved script ps asks for
firstNestedName(ps) ==
    substring(substitutedCommand(firstSelfInvocation(ps.script), ps.substitutions),
              Len(bnrunPrefix))

\* The first self-invocation of ps names no template
missesNested(ps) ==
    /\ hasSelfInvocation(ps.script)
    /\ ~matchesSome(firstNestedName(ps))

\* C7: missing script. A requested name that no template matches, at top
\* level or in a self-invocation one or two invocations down, ends the run
\* with the Error `No script found` naming that string; no plan is returned
\* and no command is run.
C7_MissingScript ==
    /\ (TargetResolved /\ ~matchesSome(argv.target)) =>
            /\ pc = "crashed"
            /\ error = NotFound(argv.target)
            /\ exitCode = 1
            /\ nothingProduced
    /\ error.kind = "No script found" =>
            /\ pc = "crashed"
            /\ ~matchesSome(error.param)
            /\ nothingProduced
    /\ (BuildEnded /\ found.index # 0 /\ missesNested(found)) =>
            /\ pc = "crashed"
            /\ error = NotFound(firstNestedName(found))
            /\ nothingProduced
    /\ ( /\ BuildEnded
         /\ found.index # 0
         /\ hasSelfInvocation(found.script)
         /\ matchesSome(firstNestedName(found))
         /\ missesNested(findMatchingScript(scripts, firstNestedName(found))) ) =>
            /\ pc = "crashed"
            /\ error =
                NotFound(firstNestedName(
                            findMatchingScript(scripts, firstNestedName(found))))
            /\ nothingProduced

\* The build failed on a name that a script two invocations down asks
\* for, after a command of that script that is no self-invocation.
C7_Witness ==
    /\ pc = "crashed"
    /\ error.kind = "No script found"
    /\ hasSelfInvocation(found.script)
    /\ matchesSome(firstNestedName(found))
    /\ missesNested(findMatchingScript(scripts, firstNestedName(found)))
    /\ ~isSelfInvocation(
            findMatchingScript(scripts, firstNestedName(found)).script.command[1])
    /\ nothingProduced

\* C8 as claimed: no step of a built plan has a command that begins with
\* the self-invocation marker.
C8_NoStepBeginsWithMarker ==
    PlanBuilt =>
        \A i \in 1..Len(plan) : ~startsWith(plan[i].command, bnrunPrefix)

\* The step is the substitution instance of a command template of a script
\* of the registry that does not begin with the marker
stemsFromPlainTemplate(step) ==
    \E j \in 1..Len(scripts) :
        \E k \in 1..Len(phaseLists(scripts[j])) :
            /\ ~isSelfInvocation(phaseLists(scripts[j])[k])
            /\ substitutedCommand(
                    phaseLists(scripts[j])[k],
                    patternMatch(scripts[j], step.script).substitutions)
                = step.command

plainTemplates(script) ==
    {k \in 1..Len(phaseLists(script)) : ~isSelfInvocation(phaseLists(script)[k])}

\* C8 as amended: self-invocation is decided on the command template, before
\* substitution. Every step of a plan is the substitution instance of a
\* template that does not begin with the marker, the requested script
\* contributes one step for each such template of its lists and none for a
\* template that begins with the marker, and the names that are resolved are
\* those of the templates that begin with the marker.
C8_DecidedOnTemplate ==
    /\ PlanBuilt =>
            /\ \A i \in 1..Len(plan) : stemsFromPlainTemplate(plan[i])
            /\ Cardinality({i \in 1..Len(plan) : plan[i].script = argv.target})
                    = Cardinality(plainTemplates(found.script))
    /\ (BuildEnded /\ found.index # 0 /\ invokesLeavesOnly(found)) => PlanBuilt

\* A plan holds a step whose command begins with the marker: the template
\* did not, the substitution produced it.
C8_Witness ==
    /\ PlanBuilt
    /\ hasSelfInvocation(found.script)
    /\ \E i \in 1..Len(plan) :
        /\ startsWith(plan[i].command, bnrunPrefix)
        /\ plan[i].script = argv.target

\* C9: post phase eligibility. The post steps of a script with run-once
\* post appear in a plan once, however often the plan invokes the script.
C9_RunOncePostOnce ==
    PlanBuilt =>
        \A i \in 1..Len(scripts) :
            (resolvesToItself(i) /\ scripts[i].options.post = "run-once") =>
                countSteps(scripts[i].name, POST) <= Len(scripts[i].post)

notSkipped(step) == ~step.skip

commandsOfSteps(steps) == [i \in 1..Len(steps) |-> steps[i].command]

commandsUpTo(n) == commandsOfSteps(SelectSeq(SubSeq(plan, 1, n), notSkipped))

\* The explanations of the first n steps of the plan, in plan order
explainedUpTo(n) == [i \in 1..n |-> explained(plan[i])]

\* C11: execution order. The commands that have been started are those of
\* the first steps of the plan that are not skipped, in plan order, each
\* once; at most one command is running, it is the one started last, and
\* every command started before it has completed: a command runs exactly
\* while the loop waits in execSync.
C11_ExecutionOrder ==
    /\ Cardinality(running) <= 1
    /\ running \subseteq {cursor}
    /\ (pc = "execSync") <=> (running # {})
    /\ (pc = "forEach" /\ ~argv.dry) => executed = commandsUpTo(cursor - 1)
    /\ pc = "execSync" =>
            /\ cursor \in 1..Len(plan)
            /\ executed = Append(commandsUpTo(cursor - 1), plan[cursor].command)

\* The second command of a plan is running, the first has completed.
C11_Witness ==
    /\ pc = "execSync"
    /\ running = {2}
    /\ executed = <<plan[1].command, plan[2].command>>
    /\ plan[1].command # plan[2].command

\* A command of the plan has exited with a status other than 0
CommandFailed == error.kind = "Error executing command"

\* C12: abort on failure. Once a command has failed the program has ended
\* with exit status 1 and has reported the text of the failing command; the
\* commands executed are those of the steps up to the failing one, none of a
\* later step, and no command is running. A run that ends with status 0 has
\* executed every step that is not skipped and reported no failure.
C12_AbortOnFailure ==
    /\ CommandFailed =>
            /\ pc = "exited"
            /\ exitCode = 1
            /\ cursor \in 1..Len(plan)
            /\ error.param = plan[cursor].command
            /\ executed = commandsUpTo(cursor)
            /\ running = {}
    /\ pc = "exited" => CommandFailed
    /\ (pc = "done" /\ ~argv.dry) =>
            /\ exitCode = 0
            /\ ~CommandFailed
            /\ executed = commandsUpTo(Len(plan))

\* The second command of a plan of three or more steps failed: the first was
\* executed, the third is not.
C12_Witness ==
    /\ CommandFailed
    /\ pc = "exited"
    /\ cursor = 2
    /\ Len(plan) >= 3
    /\ Len(executed) = 2

\* C13: dry run. With the dry flag no command is executed or running,
\* whatever the plan and the skip patterns, and no command failure ends the
\* run; the steps the loop has passed have been printed, each once, in plan
\* order, and at the end of the run every step of the plan has been printed.
\* Without the flag no step is printed in place of its execution.
C13_DryRun ==
    /\ argv.dry =>
            /\ executed = << >>
            /\ running = {}
            /\ pc \notin {"execSync", "exited"}
            /\ PlanBuilt => printed = explainedUpTo(cursor - 1)
            /\ pc = "done" => printed = explainedUpTo(Len(plan))
    /\ ~argv.dry => printed = << >>

\* A dry run of a plan of three or more steps, one of them skipped by a
\* pattern and one not, has ended.
C13_Witness ==
    /\ argv.dry
    /\ pc = "done"
    /\ Len(plan) >= 3
    /\ Len(printed) = Len(plan)
    /\ \E i \in 1..Len(plan) : plan[i].skip
    /\ \E i \in 1..Len(plan) : ~plan[i].skip

\* C14: invalid definitions are rejected at load. The registry the program
\* resolves names in holds no entry with an empty command list: loading a
\* file with such an entry has ended the run before any resolution.
C14_InvalidDefinitionsRejected ==
    \A i \in 1..Len(scripts) : scripts[i].command # << >>

\* A command of the resolved script ps invokes the template of ps again
invokesItself(ps) ==
    \E i \in 1..Len(phaseLists(ps.script)) :
        /\ isSelfInvocation(phaseLists(ps.script)[i])
        /\ nestedOf(ps, phaseLists(ps.script)[i]).index = ps.index

\* C15: cyclic invocation. The build of a script that invokes itself ends
\* with the error CyclicInvocation, and no build ends by exhausting the call
\* stack.
C15_CyclicInvocation ==
    /\ (BuildEnded /\ found.index # 0 /\ invokesItself(found)) =>
            /\ pc = "crashed"
            /\ error.kind = "CyclicInvocation"
    /\ error # StackOverflow

\* The list of a script that a phase names
phaseList(script, phase) ==
    IF phase = PRE THEN script.pre
    ELSE IF phase = COMMAND THEN script.command
    ELSE script.post

\* The commands that are no self-invocation, in the order of the expansion of
\* the resolved script ps: each is named by the resolved script whose list
\* holds it, the phase of that list and its place k in the list
RECURSIVE commandsOf(_, _)
commandsOfList(ps, phase, level) ==
    concatAll([k \in 1..Len(phaseList(ps.script, phase)) |->
        IF isSelfInvocation(phaseList(ps.script, phase)[k])
        THEN commandsOf(nestedOf(ps, phaseList(ps.script, phase)[k]), level + 1)
        ELSE << [owner |-> ps, phase |-> phase, k |-> k] >>])

commandsOf(ps, level) ==
    IF level > MaxDepth \/ ps.index = 0 THEN << >>
    ELSE commandsOfList(ps, PRE, level)
            \o commandsOfList(ps, COMMAND, level)
            \o commandsOfList(ps, POST, level)

\* The step a command yields: the phase of its list, the substituted name of
\* its script, the substituted command
stepOf(c) ==
    [script |-> substitutedName(c.owner.script.name, c.owner.substitutions),
     phase |-> c.phase,
     command |-> substitutedCommand(phaseList(c.owner.script, c.phase)[c.k],
                                    c.owner.substitutions)]

yieldsOneStepEach(steps, commands) ==
    /\ Len(steps) = Len(commands)
    /\ \A i \in 1..Len(commands) : core(steps[i]) = stepOf(commands[i])

\* C16: one step per command. The plan holds one step for each command that
\* is no self-invocation, at every depth of the expansion: its phase is the
\* phase of the list of the script that holds the command, its script the
\* substituted name of that script, its command the substituted command. The
\* steps of a nested script carry the nested script's phases and name, not
\* those of the invoking command.
C16_OneStepPerCommand ==
    PlanBuilt => yieldsOneStepEach(plan, commandsOf(found, 0))

\* The plan of a parameterized script whose command list holds a command and
\* then a self-invocation: a command step of the requested script is followed
\* by a pre step and a command step of the nested script, under its
\* substituted name.
C16_Witness ==
    /\ PlanBuilt
    /\ found.substitutions # << >>
    /\ Len(plan) = 3
    /\ plan[1].script = argv.target /\ plan[1].phase = COMMAND
    /\ plan[2].script # argv.target /\ plan[2].phase = PRE
    /\ plan[3].script = plan[2].script /\ plan[3].phase = COMMAND
    /\ isSelfInvocation(found.script.command[2])
    /\ hasPlaceholder(nestedOf(found, found.script.command[2]).script.name)

\* C17: ledger recording. Once the build of the requested script has
\* returned, the ledger holds its unsubstituted template name.
C17_LedgerRecording ==
    PlanBuilt => \E i \in 1..Len(scriptsRan) : scriptsRan[i] = found.script.name

\* The pre steps of the plan whose script name resolves to script i of the
\* registry
preStepsOf(i) ==
    {j \in 1..Len(plan) :
        /\ plan[j].phase = PRE
        /\ findMatchingScript(scripts, plan[j].script).index = i}

\* C18: run-once is keyed on the template name. The pre steps of a
\* parameterized script with run-once pre appear in a plan for one
\* invocation only, with however many parameter values the plan invokes it.
C18_RunOnceKeyedOnTemplate ==
    PlanBuilt =>
        \A i \in 1..Len(scripts) :
            (hasPlaceholder(scripts[i].name) /\ scripts[i].options.pre = "run-once") =>
                Cardinality(preStepsOf(i)) <= Len(scripts[i].pre)

\* C19: planning precedes execution. Until the whole plan has been built no
\* command has been executed, is running or has been printed; a run that
\* ended in the load, in the resolution of the requested name or in the
\* build, a nested resolution included, has exit status 1, no plan and has
\* executed no command, the commands that precede the failing
\* self-invocation included.
C19_PlanningPrecedesExecution ==
    /\ ~PlanBuilt =>
            /\ executed = << >>
            /\ running = {}
            /\ printed = << >>
            /\ plan = << >>
    /\ pc = "crashed" => exitCode = 1 /\ error # NoError
    /\ Len(executed) > 0 => PlanBuilt

\* The build failed on a self-invocation that stands after a command of the
\* requested script: that command was not executed.
C19_Witness ==
    /\ pc = "crashed"
    /\ error.kind = "No script found"
    /\ found.index # 0
    /\ error.param # argv.target
    /\ ~isSelfInvocation(phaseLists(found.script)[1])
    /\ hasSelfInvocation(found.script)
    /\ executed = << >>

requestedBy(ps, commandToRun) ==
    substring(substitutedCommand(commandToRun, ps.substitutions), Len(bnrunPrefix))

\* For each command of the expansion of the resolved script ps that is no
\* self-invocation, in plan order, the name that was requested in the
\* resolution that returned the script holding the command
RECURSIVE requestedNames(_, _, _)
requestedNamesOfList(ps, requested, commands, level) ==
    concatAll([k \in 1..Len(commands) |->
        IF isSelfInvocation(commands[k])
        THEN requestedNames(nestedOf(ps, commands[k]),
                            requestedBy(ps, commands[k]), level + 1)
        ELSE << requested >>])

requestedNames(ps, requested, level) ==
    IF level > MaxDepth \/ ps.index = 0 THEN << >>
    ELSE requestedNamesOfList(ps, requested, ps.script.pre, level)
            \o requestedNamesOfList(ps, requested, ps.script.command, level)
            \o requestedNamesOfList(ps, requested, ps.script.post, level)

namedAsRequested(steps, names) ==
    /\ Len(steps) = Len(names)
    /\ \A i \in 1..Len(steps) : steps[i].script = names[i]

\* C21: the script name of a step is the requested name. Every step of a
\* plan carries as its script name the string that was requested, at top
\* level or after the marker of a self-invocation, in the resolution that
\* returned the script whose list holds the command of the step.
C21_NamedAsRequested ==
    PlanBuilt => namedAsRequested(plan, requestedNames(found, argv.target, 0))

\* A plan whose requested script and whose nested script were both resolved
\* by substitution: the steps carry the two requested names.
C21_Witness ==
    /\ PlanBuilt
    /\ found.substitutions # << >>
    /\ found.script.name # argv.target
    /\ \E k \in 1..Len(found.script.command) :
        /\ isSelfInvocation(found.script.command[k])
        /\ nestedOf(found, found.script.command[k]).substitutions # << >>
        /\ \E i \in 1..Len(plan) :
            plan[i].script = requestedBy(found, found.script.command[k])
    /\ \E i \in 1..Len(plan) : plan[i].script = argv.target

\* The scripts of the registry whose name, with the value of the request
\* put in place of its placeholders, is the requested name t
patternMatches(t) ==
    {i \in 1..Len(scripts) : patternMatch(scripts[i], t).scriptName = t}

\* The resolver returned the first script of the set matches, with the
\* bindings of that script, and returns the same when asked again
firstOf(matches) ==
    /\ found.index \in matches
    /\ \A i \in matches : found.index <= i
    /\ found.script = scripts[found.index]
    /\ found.substitutions =
            patternMatch(scripts[found.index], argv.target).substitutions
    /\ findMatchingScript(scripts, argv.target) = found

returnedFirstOf(matches) == matches # {} => firstOf(matches)

\* C22: resolution is deterministic in registry order. When no script has
\* the requested name and scripts match it by substitution, the resolver
\* returns the first of them in registry order, with the bindings of that
\* script; resolving the name again in the same registry returns the same
\* script and bindings.
C22_FirstInRegistryOrder ==
    (TargetResolved /\ ~hasExact(argv.target)) =>
        returnedFirstOf(patternMatches(argv.target))

\* Two scripts with different names match the requested name by
\* substitution, with different bindings: the first was returned.
C22_Witness ==
    /\ TargetResolved
    /\ ~hasExact(argv.target)
    /\ found.index = 1
    /\ \E i \in patternMatches(argv.target) :
        /\ i > 1
        /\ scripts[i].name # scripts[1].name
        /\ patternMatch(scripts[i], argv.target).substitutions # found.substitutions

====
